---- MODULE Spec2Model ----
(***************************************************************************)
(* Access-control core of the employee cabinet: the ACL evaluator          *)
(* (AccessService), its decision cache, rule administration, and the       *)
(* object-access gate (ObjectService, ObjectAccess.has_section_access).    *)
(***************************************************************************)
EXTENDS Integers, Sequences, FiniteSets, Bags, TLC

VARIABLES
    acls,             \* the acls table: a bag of ACL rows
    cache,            \* the Redis keyspace "acl:*": key -> "true" | "false"
    redis,            \* the redis_client handed to AccessService
    cache_up,         \* the cache backend answers
    store_up,         \* the database answers
    objects,          \* the objects table
    object_accesses,  \* the object_accesses table
    last,             \* the last call: operation, arguments, outcome
    pending,          \* per request handler: the call it is in the middle of
    age,              \* per cache key: the seconds since it was written
    sessions,         \* the sessions table
    tokens,           \* refresh tokens handed to clients: token -> times accepted
    now               \* the clock, in days

vars == <<acls, cache, redis, cache_up, store_up, objects, object_accesses, last, pending, age,
          sessions, tokens, now>>

\* Python None in a string-typed and in an integer-typed position
NoneStr == "None"
NoneInt == -1

-----------------------------------------------------------------------------
(* Bounds *)

MaxAcls == 2

\* ids of the objects created
ObjectIds == {1}

\* the request handlers that run side by side, and a handler between calls
Workers == {1, 2}

Idle == [op |-> "idle"]

NoPending == [w \in Workers |-> Idle]

\* no refresh token has been handed out
NoTokens == [t \in {} |-> 0]

-----------------------------------------------------------------------------
(* Enumerations and the users table *)

UserRole == {"admin", "accountant", "hr", "engineer", "lawyer", "safety", "employee"}

PermissionType == {"read", "write", "delete", "create", "admin"}

ACLEffect == {"allow", "deny"}

\* rows of the users table: id, role, the ABAC columns and department_rel.name
\* (department names are transliterated: "Tekhnicheskiy otdel" is the
\* technical department, "Yuridicheskiy" the legal one of DepartmentName)
Users ==
    { [id |-> 1, role |-> "admin",    position |-> NoneStr,   location |-> NoneStr, object_id |-> NoneInt,
       department_name |-> NoneStr],
      [id |-> 2, role |-> "employee", position |-> "foreman", location |-> "north", object_id |-> 5,
       department_name |-> NoneStr],
      [id |-> 7, role |-> "engineer", position |-> NoneStr,   location |-> NoneStr, object_id |-> NoneInt,
       department_name |-> "Tekhnicheskiy otdel"],
      [id |-> 8, role |-> "lawyer",   position |-> NoneStr,   location |-> NoneStr, object_id |-> NoneInt,
       department_name |-> "Yuridicheskiy"] }

UserById(id) == CHOOSE u \in Users : u.id = id

\* getattr(user, name, None): the User model has position, location and
\* object_id columns and no attribute called department
getattr(user, name) ==
    CASE name = "position"  -> user.position
      [] name = "location"  -> user.location
      [] name = "object_id" -> user.object_id
      [] OTHER              -> NoneStr

\* a hierarchy in which no role inherits another
ROLE_HIERARCHY_Flat(role) == {role}

\* ROLE_HIERARCHY.get(user.role, [user.role])
ROLE_HIERARCHY(role) ==
    CASE role = "employee" -> {"employee"}
      [] role = "admin"    -> {"admin", "employee"}
      [] OTHER             -> {role}

-----------------------------------------------------------------------------
(* ACL rows *)

ACL(rt, rid, perm, effect, m) ==
    [resource_type |-> rt, resource_id |-> rid, permission |-> perm, effect |-> effect,
     user_id |-> m.user_id, role |-> m.role, department |-> m.department,
     position |-> m.position, location |-> m.location, object_id |-> m.object_id]

NoMatcher ==
    [user_id |-> NoneInt, role |-> NoneStr, department |-> NoneStr,
     position |-> NoneStr, location |-> NoneStr, object_id |-> NoneInt]

\* Column == value as SQLAlchemy renders it: "col IS NULL" for a None
\* value, "col = value" (never true of a NULL column) otherwise
SqlEq(col, val, null) ==
    IF val = null THEN col = null ELSE (col # null /\ col = val)

\* the or_(...) of has_access and get_user_permissions
SubjectFilter(e, user) ==
    \/ e.user_id = user.id
    \/ e.role \in ROLE_HIERARCHY(user.role)
    \/ SqlEq(e.department, getattr(user, "department"), NoneStr)
    \/ SqlEq(e.position, getattr(user, "position"), NoneStr)
    \/ SqlEq(e.location, getattr(user, "location"), NoneStr)
    \/ SqlEq(e.object_id, getattr(user, "object_id"), NoneInt)

\* db.query(ACL).filter(and_(resource, permission, effect, or_(...)))
RuleQuery(user, rt, rid, perm, effect) ==
    { e \in BagToSet(acls) :
        /\ e.resource_type = rt
        /\ e.resource_id = rid
        /\ e.permission = perm
        /\ e.effect = effect
        /\ SubjectFilter(e, user) }

\* has_access asking for ALLOW rows first and never for DENY rows
StoreDecision_AllowFirst(user, rt, rid, perm) ==
    RuleQuery(user, rt, rid, perm, "allow") # {}

\* the two store queries of has_access: DENY first, then ALLOW
StoreDecision(user, rt, rid, perm) ==
    IF RuleQuery(user, rt, rid, perm, "deny") # {}
    THEN FALSE
    ELSE RuleQuery(user, rt, rid, perm, "allow") # {}

PyBool(b) == IF b THEN "True" ELSE "False"

-----------------------------------------------------------------------------
(* Decision cache *)

EmptyCache == [k \in {} |-> "true"]

\* f"acl:{user_id}:{resource_type}:{resource_id}:{permission}"
get_cache_key(user_id, rt, rid, perm) == <<user_id, rt, rid, perm>>

\* what redis.get returns for a stored value: bytes from a plain client,
\* str from a client built with decode_responses=True
RedisGet(key) ==
    [type |-> IF redis = "decoded" THEN "str" ELSE "bytes", text |-> cache[key]]

\* a cache read that answers from the keyspace whether or not the backend
\* is reachable
check_from_cache_Unguarded(key) ==
    IF redis = NoneStr THEN "None"
    ELSE IF key \notin DOMAIN cache THEN "None"
    ELSE PyBool(RedisGet(key) = [type |-> "bytes", text |-> "true"])

\* "True" | "False" | "None"
check_from_cache(key) ==
    IF redis = NoneStr THEN "None"
    ELSE IF ~cache_up THEN "None"
    ELSE IF key \notin DOMAIN cache THEN "None"
    ELSE PyBool(RedisGet(key) = [type |-> "bytes", text |-> "true"])

\* the keyspace after redis.setex(cache_key, ttl, "true" | "false")
set_cache(key, result) ==
    IF redis = NoneStr \/ ~cache_up THEN cache
    ELSE [k \in DOMAIN cache \cup {key} |->
            IF k = key THEN (IF result THEN "true" ELSE "false") ELSE cache[k]]

\* no key has been written
NoAges == [k \in {} |-> 0]

\* the keys a setex for the key writes: none without a reachable client
Written(key) == IF redis = NoneStr \/ ~cache_up THEN {} ELSE {key}

\* the ages of the keys of keyspace c once the written keys are set anew
Ages(c, written) ==
    [k \in DOMAIN c |-> IF k \in written \/ k \notin DOMAIN age THEN 0 ELSE age[k]]

\* an invalidation that deletes nothing
invalidate_cache_Noop(user_id, rt, rid) == cache

\* the keyspace after deleting redis.keys(pattern)
invalidate_cache(user_id, rt, rid) ==
    IF redis = NoneStr \/ ~cache_up THEN cache
    ELSE LET hit(k) == IF rid # NoneInt /\ rid # 0
                       THEN k[1] = user_id /\ k[2] = rt /\ k[3] = rid
                       ELSE k[1] = user_id /\ k[2] = rt
             keep == { k \in DOMAIN cache : ~hit(k) }
         IN  [k \in keep |-> cache[k]]

-----------------------------------------------------------------------------
(* AccessService operations *)

Call(op, a, ret) == [op |-> op, a |-> a, ret |-> ret]

\* what the call before this one was, as far as this call is concerned:
\* a user-specific grant for exactly this user, resource and permission
\* ("grant_stale" when a cached false was standing for the key), or other
After(user_id, rt, rid, perm) ==
    IF /\ last.op = "grant_access"
       /\ last.ret = "rule"
       /\ last.a.m.user_id = user_id
       /\ last.a.resource_type = rt
       /\ last.a.resource_id = rid
       /\ last.a.permission = perm
    THEN (IF last.a.stale THEN "grant_stale" ELSE "grant")
    ELSE "other"

\* whether the call before this one was a user-specific revoke for this
\* user and resource that deleted a rule ("revoke_stale" when a cached true
\* was standing under the prefix), or other
AfterRevoke(user_id, rt, rid) ==
    IF /\ last.op = "revoke_access"
       /\ last.ret = "True"
       /\ last.a.user_id = user_id
       /\ last.a.resource_type = rt
       /\ last.a.resource_id = rid
    THEN (IF last.a.stale THEN "revoke_stale" ELSE "revoke")
    ELSE "other"

has_access(user, rt, rid, perm) ==
    LET key    == get_cache_key(user.id, rt, rid, perm)
        cached == check_from_cache(key)
        a      == [user_id |-> user.id, resource_type |-> rt, resource_id |-> rid,
                   permission |-> perm, after |-> After(user.id, rt, rid, perm),
                   roles |-> ROLE_HIERARCHY(user.role),
                   after_revoke |-> AfterRevoke(user.id, rt, rid)]
    IN  IF cached # "None"
        THEN /\ last' = Call("has_access", a, cached)
             /\ UNCHANGED <<acls, cache, redis, cache_up, store_up, objects, object_accesses, pending, age, sessions, tokens, now>>
        ELSE IF ~store_up
        THEN /\ last' = Call("has_access", a, "raise")
             /\ UNCHANGED <<acls, cache, redis, cache_up, store_up, objects, object_accesses, pending, age, sessions, tokens, now>>
        ELSE /\ cache' = set_cache(key, StoreDecision(user, rt, rid, perm))
             /\ last' = Call("has_access", a, PyBool(StoreDecision(user, rt, rid, perm)))
             /\ age' = Ages(cache', Written(key))
             /\ UNCHANGED <<acls, redis, cache_up, store_up, objects, object_accesses, pending, sessions, tokens, now>>

\* grant_access emptying the cache after a grant that names no user
grant_access_Flush(rt, rid, perm, m) ==
    LET a == [resource_type |-> rt, resource_id |-> rid, permission |-> perm, m |-> m,
              stale |-> check_from_cache(get_cache_key(m.user_id, rt, rid, perm)) = "False"]
    IN  IF ~store_up
        THEN /\ last' = Call("grant_access", a, "raise")
             /\ UNCHANGED <<acls, cache, redis, cache_up, store_up, objects, object_accesses, pending, age, sessions, tokens, now>>
        ELSE /\ BagCardinality(acls) < MaxAcls
             /\ acls' = acls (+) SetToBag({ACL(rt, rid, perm, "allow", m)})
             /\ cache' = IF m.user_id # NoneInt /\ m.user_id # 0
                         THEN invalidate_cache(m.user_id, rt, rid)
                         ELSE IF redis = NoneStr \/ ~cache_up THEN cache ELSE EmptyCache
             /\ last' = Call("grant_access", a, "rule")
             /\ age' = Ages(cache', {})
             /\ UNCHANGED <<redis, cache_up, store_up, objects, object_accesses, pending, sessions, tokens, now>>

grant_access(rt, rid, perm, m) ==
    LET a == [resource_type |-> rt, resource_id |-> rid, permission |-> perm, m |-> m,
              stale |-> check_from_cache(get_cache_key(m.user_id, rt, rid, perm)) = "False"]
    IN  IF ~store_up
        THEN /\ last' = Call("grant_access", a, "raise")
             /\ UNCHANGED <<acls, cache, redis, cache_up, store_up, objects, object_accesses, pending, age, sessions, tokens, now>>
        ELSE /\ BagCardinality(acls) < MaxAcls
             /\ acls' = acls (+) SetToBag({ACL(rt, rid, perm, "allow", m)})
             /\ cache' = IF m.user_id # NoneInt /\ m.user_id # 0
                         THEN invalidate_cache(m.user_id, rt, rid)
                         ELSE cache
             /\ last' = Call("grant_access", a, "rule")
             /\ age' = Ages(cache', {})
             /\ UNCHANGED <<redis, cache_up, store_up, objects, object_accesses, pending, sessions, tokens, now>>

\* a role filter that also selects the roles the given role inherits
RevokeRoleFilter_Inherited(e, role) ==
    role # NoneStr => e.role \in ROLE_HIERARCHY(role)

\* filters.append(ACL.role == role.value) when a role is given
RevokeRoleFilter(e, role) ==
    role # NoneStr => e.role = role

\* revoke_access filtering without the permission
RevokeFilter_AnyPermission(rt, rid, perm, user_id, role) ==
    { e \in BagToSet(acls) :
        /\ e.resource_type = rt
        /\ e.resource_id = rid
        /\ (user_id # NoneInt => e.user_id = user_id)
        /\ (role # NoneStr => e.role = role) }

\* the rows db.query(ACL).filter(*filters) of revoke_access selects
RevokeFilter(rt, rid, perm, user_id, role) ==
    { e \in BagToSet(acls) :
        /\ e.resource_type = rt
        /\ e.resource_id = rid
        /\ e.permission = perm
        /\ (user_id # NoneInt => e.user_id = user_id)
        /\ RevokeRoleFilter(e, role) }

\* revoke_access leaving the cache alone
revoke_access_NoInvalidate(rt, rid, perm, user_id, role) ==
    LET a == [resource_type |-> rt, resource_id |-> rid, permission |-> perm,
              user_id |-> user_id, role |-> role,
              stale |-> \E k \in DOMAIN cache :
                            k[1] = user_id /\ k[2] = rt /\ k[3] = rid /\ cache[k] = "true"]
    IN  IF ~store_up
        THEN /\ last' = Call("revoke_access", a, "raise")
             /\ UNCHANGED <<acls, cache, redis, cache_up, store_up, objects, object_accesses, pending, age, sessions, tokens, now>>
        ELSE IF RevokeFilter(rt, rid, perm, user_id, role) = {}
        THEN /\ last' = Call("revoke_access", a, "False")
             /\ UNCHANGED <<acls, cache, redis, cache_up, store_up, objects, object_accesses, pending, age, sessions, tokens, now>>
        ELSE \E rule \in RevokeFilter(rt, rid, perm, user_id, role) :
                /\ acls' = acls (-) SetToBag({rule})
                /\ cache' = cache
                /\ last' = Call("revoke_access", a, "True")
                /\ age' = Ages(cache', {})
                /\ UNCHANGED <<redis, cache_up, store_up, objects, object_accesses, pending, sessions, tokens, now>>

revoke_access(rt, rid, perm, user_id, role) ==
    LET a == [resource_type |-> rt, resource_id |-> rid, permission |-> perm,
              user_id |-> user_id, role |-> role,
              stale |-> \E k \in DOMAIN cache :
                            k[1] = user_id /\ k[2] = rt /\ k[3] = rid /\ cache[k] = "true"]
    IN  IF ~store_up
        THEN /\ last' = Call("revoke_access", a, "raise")
             /\ UNCHANGED <<acls, cache, redis, cache_up, store_up, objects, object_accesses, pending, age, sessions, tokens, now>>
        ELSE IF RevokeFilter(rt, rid, perm, user_id, role) = {}
        THEN /\ last' = Call("revoke_access", a, "False")
             /\ UNCHANGED <<acls, cache, redis, cache_up, store_up, objects, object_accesses, pending, age, sessions, tokens, now>>
        ELSE \E rule \in RevokeFilter(rt, rid, perm, user_id, role) :
                /\ acls' = acls (-) SetToBag({rule})
                /\ cache' = IF user_id # NoneInt
                            THEN invalidate_cache(user_id, rt, rid)
                            ELSE cache
                /\ last' = Call("revoke_access", a, "True")
                /\ age' = Ages(cache', {})
                /\ UNCHANGED <<redis, cache_up, store_up, objects, object_accesses, pending, sessions, tokens, now>>

\* get_user_permissions without its DENY query
PermissionQuery_AllowOnly(user, rt, rid, effect) ==
    IF effect = "deny" THEN {}
    ELSE { e.permission : e \in { r \in BagToSet(acls) :
                                     /\ r.resource_type = rt
                                     /\ r.resource_id = rid
                                     /\ r.effect = effect
                                     /\ SubjectFilter(r, user) } }

\* the permissions of the rows db.query(ACL.permission).filter(and_(resource,
\* effect, or_(...))) of get_user_permissions selects
PermissionQuery(user, rt, rid, effect) ==
    { e.permission : e \in { r \in BagToSet(acls) :
                                /\ r.resource_type = rt
                                /\ r.resource_id = rid
                                /\ r.effect = effect
                                /\ SubjectFilter(r, user) } }

\* the returned list is recorded as the set of its elements; a call that
\* raises is recorded as {"raise"}
get_user_permissions(user_id, rt, rid) ==
    LET a     == [user_id |-> user_id, resource_type |-> rt, resource_id |-> rid]
        found == { u \in Users : u.id = user_id }
    IN  /\ last' = Call("get_user_permissions", a,
                        IF ~store_up THEN {"raise"}
                        ELSE IF found = {} THEN {}
                        ELSE LET user == CHOOSE u \in found : TRUE
                             IN  PermissionQuery(user, rt, rid, "allow")
                                    \ PermissionQuery(user, rt, rid, "deny"))
        /\ UNCHANGED <<acls, cache, redis, cache_up, store_up, objects, object_accesses, pending, age, sessions, tokens, now>>

-----------------------------------------------------------------------------
(* The environment: the database and the cache backend come and go *)

Env == Call("env", <<>>, "")

StoreFail ==
    /\ store_up
    /\ store_up' = FALSE
    /\ last' = Env
    /\ UNCHANGED <<acls, cache, redis, cache_up, objects, object_accesses, pending, age, sessions, tokens, now>>

StoreRecover ==
    /\ ~store_up
    /\ store_up' = TRUE
    /\ last' = Env
    /\ UNCHANGED <<acls, cache, redis, cache_up, objects, object_accesses, pending, age, sessions, tokens, now>>

CacheFail ==
    /\ redis # NoneStr
    /\ cache_up
    /\ cache_up' = FALSE
    /\ last' = Env
    /\ UNCHANGED <<acls, cache, redis, store_up, objects, object_accesses, pending, age, sessions, tokens, now>>

CacheRecover ==
    /\ redis # NoneStr
    /\ ~cache_up
    /\ cache_up' = TRUE
    /\ last' = Env
    /\ UNCHANGED <<acls, cache, redis, store_up, objects, object_accesses, pending, age, sessions, tokens, now>>

-----------------------------------------------------------------------------
(* The evaluator over a bounded rule store, no cache configured *)

EvalTargets == { <<"object", 42, "read">>, <<"object", 42, "write">> }

EvalMatchers ==
    { [NoMatcher EXCEPT !.user_id = 7],
      [NoMatcher EXCEPT !.role = "admin"],
      [NoMatcher EXCEPT !.role = "employee"],
      [NoMatcher EXCEPT !.role = "engineer"],
      [NoMatcher EXCEPT !.department = "sales"],
      [NoMatcher EXCEPT !.position = "foreman"],
      [NoMatcher EXCEPT !.object_id = 5] }

\* the user ids get_user_permissions is asked about; no user has id 9
EvalSubjects == {1, 2, 7, 8, 9}

EvalEntries ==
    { ACL(t[1], t[2], t[3], eff, m) : t \in EvalTargets, eff \in ACLEffect, m \in EvalMatchers }

InitEval ==
    /\ acls \in {EmptyBag} \cup { SetToBag({e1, e2}) : e1, e2 \in EvalEntries }
    /\ cache = EmptyCache
    /\ redis = NoneStr
    /\ cache_up = TRUE
    /\ store_up = TRUE
    /\ objects = {}
    /\ object_accesses = {}
    /\ last = Env
    /\ pending = NoPending
    /\ age = NoAges
    /\ sessions = {}
    /\ tokens = NoTokens
    /\ now = 0

NextEval ==
    \/ \E user \in Users, t \in EvalTargets : has_access(user, t[1], t[2], t[3])
    \/ \E t \in EvalTargets, m \in EvalMatchers : grant_access(t[1], t[2], t[3], m)
    \/ \E t \in EvalTargets, user_id \in {NoneInt, 7}, role \in {NoneStr, "admin", "employee"} :
          revoke_access(t[1], t[2], t[3], user_id, role)
    \/ \E user_id \in EvalSubjects, t \in EvalTargets : get_user_permissions(user_id, t[1], t[2])
    \/ StoreFail
    \/ StoreRecover

SpecEval == InitEval /\ [][NextEval]_vars

-----------------------------------------------------------------------------
(* The evaluator with a cache client configured *)

CacheTargets == { <<"object", 42, "read">>, <<"object", 0, "read">>, <<"object", 0, "write">> }

\* the calls made: (user id, target) for has_access, (target, matcher) for
\* grant_access, (target, user_id, role) for revoke_access
CacheChecks ==
    { <<1, t>> : t \in CacheTargets } \cup { <<2, <<"object", 42, "read">> >> }

CacheGrants ==
    { <<t, [NoMatcher EXCEPT !.user_id = 1]>> : t \in CacheTargets }
        \cup { << <<"object", 42, "read">>, [NoMatcher EXCEPT !.role = "employee"] >>,
               << <<"object", 42, "read">>, NoMatcher >>,
               << <<"object", 42, "read">>, [NoMatcher EXCEPT !.user_id = 1, !.role = "employee"] >> }

CacheRevokes ==
    { <<t, 1, NoneStr>> : t \in CacheTargets }
        \cup { << <<"object", 42, "read">>, NoneInt, "employee" >>,
               << <<"object", 42, "read">>, NoneInt, NoneStr >> }

InitCache ==
    /\ acls = EmptyBag
    /\ cache = EmptyCache
    /\ redis \in {"raw", "decoded"}
    /\ cache_up = TRUE
    /\ store_up = TRUE
    /\ objects = {}
    /\ object_accesses = {}
    /\ last = Env
    /\ pending = NoPending
    /\ age = NoAges
    /\ sessions = {}
    /\ tokens = NoTokens
    /\ now = 0

NextCache ==
    \/ \E c \in CacheChecks : has_access(UserById(c[1]), c[2][1], c[2][2], c[2][3])
    \/ \E g \in CacheGrants : grant_access(g[1][1], g[1][2], g[1][3], g[2])
    \/ \E r \in CacheRevokes : revoke_access(r[1][1], r[1][2], r[1][3], r[2], r[3])
    \/ CacheFail
    \/ CacheRecover

SpecCache == InitCache /\ [][NextCache]_vars

-----------------------------------------------------------------------------
(* The evaluator with a cache whose entries expire *)

\* the ttl of _set_cache, in seconds
ttl == 3600

\* the seconds that pass in one step of the clock
TickSeconds == 1800

\* a key that never expires
ttl_elapsed_Never(seconds) == FALSE

\* a key written by setex(key, ttl, value) is gone once ttl seconds have passed
ttl_elapsed(seconds) == seconds >= ttl

\* time passes in the cache server: every key ages and the keys whose ttl
\* has elapsed are deleted; the deleted entries are recorded
Tick ==
    LET aged == [k \in DOMAIN cache |-> age[k] + TickSeconds]
        live == { k \in DOMAIN cache : ~ttl_elapsed(aged[k]) }
    IN  /\ DOMAIN cache # {}
        /\ cache' = [k \in live |-> cache[k]]
        /\ age' = [k \in live |-> aged[k]]
        /\ last' = Call("expire", { <<k, cache[k]>> : k \in DOMAIN cache \ live }, "")
        /\ UNCHANGED <<acls, redis, cache_up, store_up, objects, object_accesses, pending, sessions, tokens, now>>

TtlChecks == { <<1, <<"object", 42, "read">> >>, <<2, <<"object", 42, "read">> >> }

TtlGrants ==
    { << <<"object", 42, "read">>, [NoMatcher EXCEPT !.role = "employee"] >>,
      << <<"object", 42, "read">>, [NoMatcher EXCEPT !.position = "foreman"] >> }

InitTtl ==
    /\ acls = EmptyBag
    /\ cache = EmptyCache
    /\ redis \in {"raw", "decoded"}
    /\ cache_up = TRUE
    /\ store_up = TRUE
    /\ objects = {}
    /\ object_accesses = {}
    /\ last = Env
    /\ pending = NoPending
    /\ age = NoAges
    /\ sessions = {}
    /\ tokens = NoTokens
    /\ now = 0

NextTtl ==
    \/ \E c \in TtlChecks : has_access(UserById(c[1]), c[2][1], c[2][2], c[2][3])
    \/ \E g \in TtlGrants : grant_access(g[1][1], g[1][2], g[1][3], g[2])
    \/ \E r \in {NoneStr, "employee"} : revoke_access("object", 42, "read", NoneInt, r)
    \/ Tick

SpecTtl == InitTtl /\ [][NextTtl]_vars

-----------------------------------------------------------------------------
(* has_access run by request handlers side by side: the cache read, the   *)
(* DENY query, the ALLOW query and the cache write of one call are steps  *)
(* between which other handlers and rule administration run               *)

\* handler w enters has_access; the call records whether another handler
\* is inside a call at that moment
has_access_begin(w, user, rt, rid, perm) ==
    /\ pending[w] = Idle
    /\ pending' = [pending EXCEPT ![w] =
                      [op |-> "has_access", pc |-> "cache", result |-> FALSE,
                       a |-> [user_id |-> user.id, resource_type |-> rt, resource_id |-> rid,
                              permission |-> perm, worker |-> w,
                              concurrent |-> \E v \in Workers : pending[v] # Idle]]]
    /\ UNCHANGED <<acls, cache, redis, cache_up, store_up, objects, object_accesses, last, age, sessions, tokens, now>>

\* handler w reads the cache; a hit is returned at once
has_access_cache(w) ==
    /\ pending[w] # Idle
    /\ pending[w].op = "has_access"
    /\ pending[w].pc = "cache"
    /\ LET a      == pending[w].a
           cached == check_from_cache(get_cache_key(a.user_id, a.resource_type, a.resource_id,
                                                    a.permission))
       IN  IF cached # "None"
           THEN /\ last' = Call("has_access", a, cached)
                /\ pending' = [pending EXCEPT ![w] = Idle]
           ELSE /\ pending' = [pending EXCEPT ![w].pc = "deny"]
                /\ UNCHANGED last
    /\ UNCHANGED <<acls, cache, redis, cache_up, store_up, objects, object_accesses, age, sessions, tokens, now>>

\* handler w runs the DENY query
has_access_deny(w) ==
    /\ pending[w] # Idle
    /\ pending[w].op = "has_access"
    /\ pending[w].pc = "deny"
    /\ LET a == pending[w].a
       IN  IF ~store_up
           THEN /\ last' = Call("has_access", a, "raise")
                /\ pending' = [pending EXCEPT ![w] = Idle]
           ELSE /\ pending' = [pending EXCEPT ![w].pc =
                                  IF RuleQuery(UserById(a.user_id), a.resource_type, a.resource_id,
                                               a.permission, "deny") # {}
                                  THEN "write" ELSE "allow"]
                /\ UNCHANGED last
    /\ UNCHANGED <<acls, cache, redis, cache_up, store_up, objects, object_accesses, age, sessions, tokens, now>>

\* handler w runs the ALLOW query
has_access_allow(w) ==
    /\ pending[w] # Idle
    /\ pending[w].op = "has_access"
    /\ pending[w].pc = "allow"
    /\ LET a == pending[w].a
       IN  IF ~store_up
           THEN /\ last' = Call("has_access", a, "raise")
                /\ pending' = [pending EXCEPT ![w] = Idle]
           ELSE /\ pending' = [pending EXCEPT ![w].pc = "write",
                                              ![w].result =
                                  RuleQuery(UserById(a.user_id), a.resource_type, a.resource_id,
                                            a.permission, "allow") # {}]
                /\ UNCHANGED last
    /\ UNCHANGED <<acls, cache, redis, cache_up, store_up, objects, object_accesses, age, sessions, tokens, now>>

\* handler w writes its verdict to the cache and returns it
has_access_return(w) ==
    /\ pending[w] # Idle
    /\ pending[w].op = "has_access"
    /\ pending[w].pc = "write"
    /\ LET a == pending[w].a
       IN  /\ cache' = set_cache(get_cache_key(a.user_id, a.resource_type, a.resource_id, a.permission),
                                 pending[w].result)
           /\ last' = Call("has_access", a, PyBool(pending[w].result))
    /\ pending' = [pending EXCEPT ![w] = Idle]
    /\ age' = Ages(cache', Written(get_cache_key(pending[w].a.user_id, pending[w].a.resource_type,
                                              pending[w].a.resource_id, pending[w].a.permission)))
    /\ UNCHANGED <<acls, redis, cache_up, store_up, objects, object_accesses, sessions, tokens, now>>

\* the subject and the key the handlers ask about
RaceUser == UserById(1)

RaceTarget == <<"object", 42, "read">>

\* the stores the calls run against when no rule changes meanwhile
RaceStores ==
    { EmptyBag,
      SetToBag({ACL("object", 42, "read", "allow", [NoMatcher EXCEPT !.user_id = 1])}),
      SetToBag({ACL("object", 42, "read", "allow", [NoMatcher EXCEPT !.user_id = 1]),
                ACL("object", 42, "read", "deny", [NoMatcher EXCEPT !.role = "admin"])}) }

InitRace ==
    /\ acls \in RaceStores
    /\ cache = EmptyCache
    /\ redis \in {"raw", "decoded"}
    /\ cache_up = TRUE
    /\ store_up = TRUE
    /\ objects = {}
    /\ object_accesses = {}
    /\ last = Env
    /\ pending = NoPending
    /\ age = NoAges
    /\ sessions = {}
    /\ tokens = NoTokens
    /\ now = 0

NextRace ==
    \/ \E w \in Workers :
          has_access_begin(w, RaceUser, RaceTarget[1], RaceTarget[2], RaceTarget[3])
    \/ \E w \in Workers : has_access_cache(w)
    \/ \E w \in Workers : has_access_deny(w)
    \/ \E w \in Workers : has_access_allow(w)
    \/ \E w \in Workers : has_access_return(w)

SpecRace == InitRace /\ [][NextRace]_vars

InitRaceMut ==
    /\ acls = EmptyBag
    /\ cache = EmptyCache
    /\ redis \in {"raw", "decoded"}
    /\ cache_up = TRUE
    /\ store_up = TRUE
    /\ objects = {}
    /\ object_accesses = {}
    /\ last = Env
    /\ pending = NoPending
    /\ age = NoAges
    /\ sessions = {}
    /\ tokens = NoTokens
    /\ now = 0

\* the same handlers, with user-specific grants and revokes for the subject
\* on the resource running in between
NextRaceMut ==
    \/ \E w \in Workers :
          has_access_begin(w, RaceUser, RaceTarget[1], RaceTarget[2], RaceTarget[3])
    \/ \E w \in Workers : has_access_cache(w)
    \/ \E w \in Workers : has_access_deny(w)
    \/ \E w \in Workers : has_access_allow(w)
    \/ \E w \in Workers : has_access_return(w)
    \/ grant_access(RaceTarget[1], RaceTarget[2], RaceTarget[3], [NoMatcher EXCEPT !.user_id = RaceUser.id])
    \/ revoke_access(RaceTarget[1], RaceTarget[2], RaceTarget[3], RaceUser.id, NoneStr)

SpecRaceMut == InitRaceMut /\ [][NextRaceMut]_vars

-----------------------------------------------------------------------------
(* Object-access gate: ObjectAccess records and ObjectService *)

ObjectAccessRole == {"owner", "admin", "editor", "viewer"}

DocumentSection == {"general", "technical", "accounting", "safety", "legal", "hr"}

\* an absent (None) list of sections
NoneSeq == <<NoneStr>>

InSeq(x, seq) == \E i \in 1..Len(seq) : seq[i] = x

\* DepartmentName: the department names of the system, transliterated
DepartmentName ==
    [ACCOUNTING |-> "Buhgalteriya", HR |-> "Otdel kadrov", TECHNICAL |-> "Tekhnicheskiy otdel",
     LEGAL |-> "Yuridicheskiy", SAFETY |-> "Okhrana truda",
     GENERAL |-> "Obshchiy otdel", ADMIN |-> "Administratsiya"]

\* DEPARTMENT_SECTION_MAP.get(name), names transliterated
DEPARTMENT_SECTION_MAP(name) ==
    CASE name = "Tekhnicheskiy otdel" -> "technical"
      [] name = "Buhgalteriya"        -> "accounting"
      [] name = "Okhrana truda"       -> "safety"
      [] name = "Yuridicheskiy otdel" -> "legal"
      [] name = "Otdel kadrov"        -> "hr"
      [] OTHER                        -> NoneStr

\* has_section_access granting every section when the list is absent
has_section_access_NullAll(record, section) ==
    IF record.sections_access = NoneSeq \/ record.sections_access = <<>>
    THEN TRUE
    ELSE IF record.role \in {"owner", "admin"}
    THEN TRUE
    ELSE InSeq(section, record.sections_access)

\* ObjectAccess.has_section_access
has_section_access(record, section) ==
    IF record.sections_access = NoneSeq \/ record.sections_access = <<>>
    THEN section = "general"
    ELSE IF record.role \in {"owner", "admin"}
    THEN TRUE
    ELSE InSeq(section, record.sections_access)

\* a call of has_section_access on a record
HasSectionAccess(record, section) ==
    /\ last' = Call("has_section_access",
                    [role |-> record.role, sections_access |-> record.sections_access,
                     section |-> section],
                    PyBool(has_section_access(record, section)))
    /\ UNCHANGED <<acls, cache, redis, cache_up, store_up, objects, object_accesses, pending, age, sessions, tokens, now>>

\* a validator that returns the list as sent
ObjectAccessCreate_validate_sections_AsSent(v) == v

\* ObjectAccessCreate.validate_sections
ObjectAccessCreate_validate_sections(v) ==
    IF InSeq("general", v) THEN v ELSE Append(v, "general")

\* ObjectAccessUpdate.validate_sections
ObjectAccessUpdate_validate_sections(v) ==
    IF v # NoneSeq /\ v # <<>> /\ ~InSeq("general", v) THEN Append(v, "general") ELSE v

ObjectById(object_id) == { o \in objects : o.id = object_id }

AccessOf(object_id, user_id) ==
    { r \in object_accesses : r.object_id = object_id /\ r.user_id = user_id }

create_object(user) ==
    LET id == Cardinality(objects) + 1
    IN  /\ id \in ObjectIds
        /\ objects' = objects \cup {[id |-> id, created_by |-> user.id]}
        /\ object_accesses' = object_accesses \cup
              {[object_id |-> id, user_id |-> user.id, role |-> "owner",
                sections_access |-> <<"general", "technical", "accounting", "safety", "legal", "hr">>,
                granted_by |-> user.id]}
        /\ last' = Call("create_object", [current_user |-> user.id], "ok")
        /\ UNCHANGED <<acls, cache, redis, cache_up, store_up, pending, age, sessions, tokens, now>>

can_manage_access(user, object_id) ==
    IF ObjectById(object_id) = {} THEN FALSE
    ELSE IF \E o \in ObjectById(object_id) : o.created_by = user.id THEN TRUE
    ELSE IF user.role = "admin" THEN TRUE
    ELSE IF \E r \in AccessOf(object_id, user.id) : r.role \in {"owner", "admin"} THEN TRUE
    ELSE StoreDecision(user, "object", object_id, "admin")

Refuse(op, a, code) ==
    /\ last' = Call(op, a, code)
    /\ UNCHANGED <<acls, cache, redis, cache_up, store_up, objects, object_accesses, pending, age, sessions, tokens, now>>

\* data: the ObjectAccessCreate as sent, [user_id, role, sections_access]
ObjectService_grant_access(object_id, data, user) ==
    LET a        == [object_id |-> object_id, user_id |-> data.user_id, current_user |-> user.id,
                     role |-> data.role, sections_access |-> data.sections_access]
        valid    == ObjectAccessCreate_validate_sections(data.sections_access)
        target   == { u \in Users : u.id = data.user_id }
        auto     == IF target = {} THEN NoneStr
                    ELSE LET target_user == CHOOSE u \in target : TRUE
                         IN  IF target_user.department_name # NoneStr
                             THEN DEPARTMENT_SECTION_MAP(target_user.department_name)
                             ELSE NoneStr
        sections == IF auto # NoneStr /\ ~InSeq(auto, valid) THEN Append(valid, auto) ELSE valid
    IN  IF ObjectById(object_id) = {} THEN Refuse("ObjectService.grant_access", a, "404")
        ELSE IF ~can_manage_access(user, object_id) THEN Refuse("ObjectService.grant_access", a, "403")
        ELSE IF AccessOf(object_id, data.user_id) # {} THEN Refuse("ObjectService.grant_access", a, "400")
        ELSE IF target = {} THEN Refuse("ObjectService.grant_access", a, "404")
        ELSE /\ object_accesses' = object_accesses \cup
                    {[object_id |-> object_id, user_id |-> data.user_id, role |-> data.role,
                      sections_access |-> sections, granted_by |-> user.id]}
             /\ last' = Call("ObjectService.grant_access", a, "ok")
             /\ UNCHANGED <<acls, cache, redis, cache_up, store_up, objects, pending, age, sessions, tokens, now>>

\* update_access without the owner test
update_owner_guard_Off(access) == FALSE

\* "cannot change the owner's access" of update_access
update_owner_guard(access) == access.role = "owner"

\* data: the ObjectAccessUpdate as sent, [role, sections_access]
ObjectService_update_access(object_id, user_id, data, current_user) ==
    LET a     == [object_id |-> object_id, user_id |-> user_id, current_user |-> current_user.id,
                  role |-> data.role, sections_access |-> data.sections_access]
        valid == ObjectAccessUpdate_validate_sections(data.sections_access)
    IN  IF ObjectById(object_id) = {} THEN Refuse("ObjectService.update_access", a, "404")
        ELSE IF /\ \A o \in ObjectById(object_id) : o.created_by # current_user.id
                /\ current_user.role # "admin"
        THEN Refuse("ObjectService.update_access", a, "403")
        ELSE IF AccessOf(object_id, user_id) = {} THEN Refuse("ObjectService.update_access", a, "404")
        ELSE LET access == CHOOSE r \in AccessOf(object_id, user_id) : TRUE
             IN  IF update_owner_guard(access)
                 THEN Refuse("ObjectService.update_access", a, "400")
                 ELSE /\ object_accesses' = (object_accesses \ {access}) \cup
                            {[access EXCEPT
                                !.role = IF data.role # NoneStr THEN data.role ELSE @,
                                !.sections_access = IF valid # NoneSeq /\ valid # <<>> THEN valid ELSE @]}
                      /\ last' = Call("ObjectService.update_access", a, "ok")
                      /\ UNCHANGED <<acls, cache, redis, cache_up, store_up, objects, pending, age, sessions, tokens, now>>

\* revoke_access without the owner test
revoke_owner_guard_Off(target_access) == FALSE

\* "cannot revoke the owner's access" of revoke_access
revoke_owner_guard(target_access) == target_access.role = "owner"

ObjectService_revoke_access(object_id, user_id, current_user) ==
    LET a == [object_id |-> object_id, user_id |-> user_id, current_user |-> current_user.id]
    IN  IF /\ \A r \in AccessOf(object_id, current_user.id) : r.role \notin {"admin", "owner"}
           /\ current_user.role # "admin"
        THEN Refuse("ObjectService.revoke_access", a, "403")
        ELSE IF AccessOf(object_id, user_id) = {} THEN Refuse("ObjectService.revoke_access", a, "404")
        ELSE LET target_access == CHOOSE r \in AccessOf(object_id, user_id) : TRUE
             IN  IF revoke_owner_guard(target_access)
                 THEN Refuse("ObjectService.revoke_access", a, "400")
                 ELSE /\ object_accesses' = object_accesses \ {target_access}
                      /\ last' = Call("ObjectService.revoke_access", a, "ok")
                      /\ UNCHANGED <<acls, cache, redis, cache_up, store_up, objects, pending, age, sessions, tokens, now>>

-----------------------------------------------------------------------------
(* The object-access operations over one object and three users *)

ObjUsers == { u \in Users : u.id \in {1, 2, 7} }

\* who creates objects, and who is named as the target of a call
ObjCreators == { u \in Users : u.id = 2 }

GrantInputs ==
    { [user_id |-> uid, role |-> role, sections_access |-> sec] :
        uid \in {2, 7, 9}, role \in {"owner", "admin", "viewer"},
        sec \in { <<"legal">> } }
      \cup { [user_id |-> 8, role |-> "viewer", sections_access |-> <<"hr">>] }

UpdateInputs ==
    { [role |-> NoneStr,  sections_access |-> <<"safety">>],
      [role |-> "viewer", sections_access |-> NoneSeq],
      [role |-> "owner",  sections_access |-> <<>>],
      [role |-> "admin",  sections_access |-> <<"hr">>] }

InitObj ==
    /\ acls \in { EmptyBag,
                  SetToBag({ACL("object", 1, "admin", "allow", [NoMatcher EXCEPT !.user_id = 7])}) }
    /\ cache = EmptyCache
    /\ redis = NoneStr
    /\ cache_up = TRUE
    /\ store_up = TRUE
    /\ objects = {}
    /\ object_accesses = {}
    /\ last = Env
    /\ pending = NoPending
    /\ age = NoAges
    /\ sessions = {}
    /\ tokens = NoTokens
    /\ now = 0

NextObj ==
    \/ \E user \in ObjCreators : create_object(user)
    \/ \E object_id \in ObjectIds, data \in GrantInputs, user \in ObjUsers :
          ObjectService_grant_access(object_id, data, user)
    \/ \E object_id \in ObjectIds, user_id \in {2, 7}, data \in UpdateInputs, user \in ObjUsers :
          ObjectService_update_access(object_id, user_id, data, user)
    \/ \E object_id \in ObjectIds, user_id \in {2, 7}, user \in ObjUsers :
          ObjectService_revoke_access(object_id, user_id, user)

SpecObj == InitObj /\ [][NextObj]_vars

-----------------------------------------------------------------------------
(* grant_access of ObjectService run by two request handlers side by side:  *)
(* a call first reads (object, rights, existing record, target user) and    *)
(* later commits its INSERT, and other handlers run in between             *)

\* an index that accepts every row
ix_object_accesses_object_user_Off(access) == FALSE

\* the unique index on (object_id, user_id): the INSERT of the row is refused
ix_object_accesses_object_user(access) ==
    AccessOf(access.object_id, access.user_id) # {}

\* the reads of grant_access: the status code it raises, NoneStr for none
grant_access_reads(object_id, data, user) ==
    IF ObjectById(object_id) = {} THEN "404"
    ELSE IF ~can_manage_access(user, object_id) THEN "403"
    ELSE IF AccessOf(object_id, data.user_id) # {} THEN "400"
    ELSE IF { u \in Users : u.id = data.user_id } = {} THEN "404"
    ELSE NoneStr

\* the ObjectAccess row grant_access builds once its reads have passed
grant_access_row(object_id, data, user) ==
    LET valid       == ObjectAccessCreate_validate_sections(data.sections_access)
        target_user == UserById(data.user_id)
        auto        == IF target_user.department_name # NoneStr
                       THEN DEPARTMENT_SECTION_MAP(target_user.department_name)
                       ELSE NoneStr
    IN  [object_id |-> object_id, user_id |-> data.user_id, role |-> data.role,
         sections_access |-> IF auto # NoneStr /\ ~InSeq(auto, valid) THEN Append(valid, auto) ELSE valid,
         granted_by |-> user.id]

\* handler w runs grant_access up to db.add(access)
grant_access_begin(w, object_id, data, user) ==
    LET a    == [object_id |-> object_id, user_id |-> data.user_id, current_user |-> user.id,
                 role |-> data.role, sections_access |-> data.sections_access]
        code == grant_access_reads(object_id, data, user)
    IN  /\ pending[w] = Idle
        /\ IF code # NoneStr
           THEN /\ last' = Call("ObjectService.grant_access", a, code)
                /\ UNCHANGED pending
           ELSE /\ last' = Call("ObjectService.grant_access", a, "pending")
                /\ pending' = [pending EXCEPT ![w] =
                                  [op |-> "ObjectService.grant_access", a |-> a,
                                   access |-> grant_access_row(object_id, data, user)]]
        /\ UNCHANGED <<acls, cache, redis, cache_up, store_up, objects, object_accesses, age, sessions, tokens, now>>

\* handler w runs db.commit(): the row is inserted, or the unique index
\* refuses it and the IntegrityError leaves the table as it was
grant_access_commit(w) ==
    /\ pending[w] # Idle
    /\ pending' = [pending EXCEPT ![w] = Idle]
    /\ IF ix_object_accesses_object_user(pending[w].access)
       THEN /\ last' = Call("ObjectService.grant_access", pending[w].a, "IntegrityError")
            /\ UNCHANGED object_accesses
       ELSE /\ last' = Call("ObjectService.grant_access", pending[w].a, "ok")
            /\ object_accesses' = object_accesses \cup {pending[w].access}
    /\ UNCHANGED <<acls, cache, redis, cache_up, store_up, objects, age, sessions, tokens, now>>

ConcInputs ==
    { [user_id |-> 7, role |-> "viewer", sections_access |-> <<"legal">>],
      [user_id |-> 7, role |-> "admin",  sections_access |-> <<"legal">>],
      [user_id |-> 8, role |-> "viewer", sections_access |-> <<"hr">>] }

InitConc ==
    /\ acls = EmptyBag
    /\ cache = EmptyCache
    /\ redis = NoneStr
    /\ cache_up = TRUE
    /\ store_up = TRUE
    /\ objects = {}
    /\ object_accesses = {}
    /\ last = Env
    /\ pending = NoPending
    /\ age = NoAges
    /\ sessions = {}
    /\ tokens = NoTokens
    /\ now = 0

NextConc ==
    \/ \E user \in ObjCreators : create_object(user)
    \/ \E w \in Workers, object_id \in ObjectIds, data \in ConcInputs, user \in ObjUsers :
          grant_access_begin(w, object_id, data, user)
    \/ \E w \in Workers : grant_access_commit(w)
    \/ \E object_id \in ObjectIds, user_id \in {7, 8}, user \in ObjUsers :
          ObjectService_revoke_access(object_id, user_id, user)

SpecConc == InitConc /\ [][NextConc]_vars

-----------------------------------------------------------------------------
(* has_section_access over bounded records *)

SectionLists ==
    {NoneSeq, <<>>} \cup { <<x>> : x \in DocumentSection }
        \cup { <<x, y>> : x, y \in DocumentSection }

InitSec ==
    /\ acls = EmptyBag
    /\ cache = EmptyCache
    /\ redis = NoneStr
    /\ cache_up = TRUE
    /\ store_up = TRUE
    /\ objects = {}
    /\ object_accesses = {}
    /\ last = Env
    /\ pending = NoPending
    /\ age = NoAges
    /\ sessions = {}
    /\ tokens = NoTokens
    /\ now = 0

NextSec ==
    \E role \in ObjectAccessRole, sec \in SectionLists, section \in DocumentSection :
        HasSectionAccess([role |-> role, sections_access |-> sec], section)

SpecSec == InitSec /\ [][NextSec]_vars

-----------------------------------------------------------------------------
(* Sessions and refresh tokens (AuthService) *)

\* settings.REFRESH_TOKEN_EXPIRATION_DAYS
REFRESH_TOKEN_EXPIRATION_DAYS == 7

\* refresh tokens handed out in one behaviour, the days one clock step
\* takes, and the last day the clock reaches
MaxTokens == 3
TickDays == 4
MaxNow == 8

\* the accounts that log in, and users.is_active
AuthUserIds == {1, 2, 7}

is_active(user_id) == user_id # 7

\* hmac.new(SECRET_KEY, token, sha256).hexdigest(): a digest, never the token
hash_refresh_token(token) == <<"hmac", token>>

\* secrets.token_urlsafe(64) is a token nobody holds yet; tokens are numbered
\* in the order they are made
create_refresh_token ==
    LET token == Cardinality(DOMAIN tokens) + 1
    IN  [token |-> token,
         token_hash |-> hash_refresh_token(token),
         expires_at |-> now + REFRESH_TOKEN_EXPIRATION_DAYS]

\* requests that will still take a token from create_refresh_token
InFlight == Cardinality({ w \in Workers : pending[w] # Idle })

\* AuthService.login: data.ok is the outcome of the e-mail lookup, the
\* brute-force gate and verify_password taken together
login(user_id, ok) ==
    LET a == [user_id |-> user_id, ok |-> ok]
        new == create_refresh_token
        session == [id |-> Cardinality(sessions) + 1,
                    user_id |-> user_id,
                    token_hash |-> new.token_hash,
                    expires_at |-> new.expires_at,
                    is_revoked |-> FALSE]
    IN  /\ Cardinality(DOMAIN tokens) + InFlight < MaxTokens
        /\ IF ~ok
           THEN /\ last' = Call("login", a, "401")
                /\ UNCHANGED <<sessions, tokens>>
           ELSE IF ~is_active(user_id)
           THEN /\ last' = Call("login", a, "403")
                /\ UNCHANGED <<sessions, tokens>>
           ELSE /\ sessions' = sessions \cup {session}
                /\ tokens' = tokens @@ (new.token :> 0)
                /\ last' = Call("login", a, "200")
        /\ UNCHANGED <<acls, cache, redis, cache_up, store_up, objects, object_accesses, pending, age, now>>

\* AuthService.refresh_token up to the user lookup: the session query reads
\* the committed rows and takes no lock
refresh_token_begin(w, refresh_token) ==
    LET refresh_hash == hash_refresh_token(refresh_token)
        found == { s \in sessions :
                     /\ s.token_hash = refresh_hash
                     /\ s.is_revoked = FALSE
                     /\ s.expires_at > now }
        a == [refresh_token |-> refresh_token, worker |-> w,
              revoked |-> \E s \in sessions : s.token_hash = refresh_hash /\ s.is_revoked,
              expired |-> \E s \in sessions : s.token_hash = refresh_hash /\ s.expires_at <= now]
    IN  /\ pending[w] = Idle
        /\ Cardinality(DOMAIN tokens) + InFlight < MaxTokens
        /\ IF found = {}
           THEN /\ last' = Call("refresh_token", a, "401")
                /\ UNCHANGED pending
           ELSE \E session \in found :
                  IF ~is_active(session.user_id)
                  THEN /\ last' = Call("refresh_token", a, "401")
                       /\ UNCHANGED pending
                  ELSE /\ pending' = [pending EXCEPT ![w] =
                                        [op |-> "refresh_token", pc |-> "rotate",
                                         session_id |-> session.id, a |-> a]]
                       /\ UNCHANGED last
        /\ UNCHANGED <<acls, cache, redis, cache_up, store_up, objects, object_accesses, age,
                       sessions, tokens, now>>

\* AuthService.refresh_token from the rotation to the response: the UPDATE
\* addresses the row by its id and writes token_hash and expires_at
refresh_token_rotate(w) ==
    /\ pending[w] # Idle
    /\ pending[w].op = "refresh_token"
    /\ LET new == create_refresh_token
           old == pending[w].a.refresh_token
       IN  /\ sessions' = { IF s.id = pending[w].session_id
                            THEN [s EXCEPT !.token_hash = new.token_hash,
                                           !.expires_at = new.expires_at]
                            ELSE s : s \in sessions }
           /\ tokens' = [tokens EXCEPT ![old] = @ + 1] @@ (new.token :> 0)
           /\ last' = Call("refresh_token", pending[w].a, "200")
    /\ pending' = [pending EXCEPT ![w] = Idle]
    /\ UNCHANGED <<acls, cache, redis, cache_up, store_up, objects, object_accesses, age, now>>

\* AuthService.logout; refresh_token NoneInt is the request without a token
logout(user_id, refresh_token) ==
    LET found == { s \in sessions :
                     /\ s.user_id = user_id
                     /\ s.token_hash = hash_refresh_token(refresh_token) }
    IN  /\ IF refresh_token # NoneInt /\ found # {}
           THEN \E session \in found :
                  sessions' = { IF s.id = session.id THEN [s EXCEPT !.is_revoked = TRUE] ELSE s :
                                s \in sessions }
           ELSE UNCHANGED sessions
        /\ last' = Call("logout", [user_id |-> user_id, refresh_token |-> refresh_token], "200")
        /\ UNCHANGED <<acls, cache, redis, cache_up, store_up, objects, object_accesses, pending, age,
                       tokens, now>>

\* AuthService.revoke_session
revoke_session(user_id, session_id) ==
    LET found == { s \in sessions : s.id = session_id /\ s.user_id = user_id }
        a == [user_id |-> user_id, session_id |-> session_id]
    IN  /\ IF found = {}
           THEN /\ last' = Call("revoke_session", a, "404")
                /\ UNCHANGED sessions
           ELSE /\ sessions' = { IF s \in found THEN [s EXCEPT !.is_revoked = TRUE] ELSE s :
                                 s \in sessions }
                /\ last' = Call("revoke_session", a, "200")
        /\ UNCHANGED <<acls, cache, redis, cache_up, store_up, objects, object_accesses, pending, age,
                       tokens, now>>

\* datetime.now(timezone.utc) moves on
Clock ==
    /\ now + TickDays <= MaxNow
    /\ now' = now + TickDays
    /\ last' = Call("clock", <<>>, "")
    /\ UNCHANGED <<acls, cache, redis, cache_up, store_up, objects, object_accesses, pending, age,
                   sessions, tokens>>

InitAuth ==
    /\ acls = EmptyBag
    /\ cache = EmptyCache
    /\ redis = NoneStr
    /\ cache_up = TRUE
    /\ store_up = TRUE
    /\ objects = {}
    /\ object_accesses = {}
    /\ last = Env
    /\ pending = NoPending
    /\ age = NoAges
    /\ sessions = {}
    /\ tokens = NoTokens
    /\ now = 0

NextAuth ==
    \/ \E user_id \in AuthUserIds, ok \in BOOLEAN : login(user_id, ok)
    \/ \E w \in Workers, t \in DOMAIN tokens : refresh_token_begin(w, t)
    \/ \E w \in Workers : refresh_token_rotate(w)
    \/ \E user_id \in AuthUserIds, t \in DOMAIN tokens \cup {NoneInt} : logout(user_id, t)
    \/ \E user_id \in AuthUserIds, session_id \in 1..MaxTokens : revoke_session(user_id, session_id)
    \/ Clock

SpecAuth == InitAuth /\ [][NextAuth]_vars

-----------------------------------------------------------------------------
(* Properties of the evaluator and of rule administration *)

\* the role set the specification gives a role: itself, plus employee for admin
EffectiveRoles(role) == IF role = "admin" THEN {"admin", "employee"} ELSE {role}

\* an entry matches a subject through a field that is populated on the
\* entry and equal to the subject's value
Matches(e, user) ==
    \/ e.user_id # NoneInt /\ e.user_id = user.id
    \/ e.role # NoneStr /\ e.role \in EffectiveRoles(user.role)
    \/ e.department # NoneStr /\ e.department = getattr(user, "department")
    \/ e.position # NoneStr /\ e.position = getattr(user, "position")
    \/ e.location # NoneStr /\ e.location = getattr(user, "location")
    \/ e.object_id # NoneInt /\ e.object_id = getattr(user, "object_id")

OnTarget(a) ==
    { e \in BagToSet(acls) :
        /\ e.resource_type = a.resource_type
        /\ e.resource_id = a.resource_id
        /\ e.permission = a.permission }

Matching(a, user, effect) ==
    { e \in OnTarget(a) : e.effect = effect /\ Matches(e, user) }

Answered == last.op = "has_access" /\ last.ret # "raise"

\* C1 (deny precedence): when the store holds an ALLOW entry and a DENY
\* entry that both match the subject on the resource and permission, by
\* whichever field, HasAccess evaluated against the store returns false.
C1_DenyPrecedence ==
    Answered =>
        LET user == UserById(last.a.user_id)
        IN  (Matching(last.a, user, "allow") # {} /\ Matching(last.a, user, "deny") # {})
                => last.ret = "False"

C1_Witness ==
    /\ Answered
    /\ last.ret = "False"
    /\ \E e1 \in Matching(last.a, UserById(last.a.user_id), "allow"),
          e2 \in Matching(last.a, UserById(last.a.user_id), "deny") :
            e1.role # NoneStr /\ e2.user_id # NoneInt

\* C2 (fail closed): with the Rule Store unreachable HasAccess returns
\* false for every subject, resource and permission and raises nothing.
C2_FailClosed ==
    (last.op = "has_access" /\ ~store_up) => last.ret = "False"

\* C3 (role hierarchy): an admin passes HasAccess on an ALLOW entry granted
\* to role employee (no DENY entry matching the admin), and an employee whom
\* no entry on the resource and permission matches does not pass, whatever
\* is granted to role admin.
C3_RoleHierarchy ==
    Answered =>
        LET user == UserById(last.a.user_id)
        IN  /\ ( /\ user.role = "admin"
                 /\ \E e \in OnTarget(last.a) : e.effect = "allow" /\ e.role = "employee"
                 /\ Matching(last.a, user, "deny") = {} )
                    => last.ret = "True"
            /\ ( /\ user.role = "employee"
                 /\ \E e \in OnTarget(last.a) : e.effect = "allow" /\ e.role = "admin"
                 /\ Matching(last.a, user, "allow") = {} )
                    => last.ret = "False"

\* C5 (idempotent revoke): RevokeAccess for a rule the store does not hold
\* returns false, raises nothing and leaves the store unchanged, the second
\* time as the first (the store being reachable).
RuleExists(a) ==
    \E e \in OnTarget(a) :
        /\ a.user_id # NoneInt => e.user_id = a.user_id
        /\ a.role # NoneStr => e.role = a.role

C5_IdempotentRevoke ==
    [][ (last'.op = "revoke_access" /\ store_up /\ ~RuleExists(last'.a))
            => (last'.ret = "False" /\ acls' = acls) ]_vars

C5_Witness ==
    /\ last.op = "revoke_access"
    /\ last.ret = "False"
    /\ acls # EmptyBag
    /\ ~RuleExists(last.a)

\* C10 (a role-based ALLOW admits only that role): when the only entry for
\* ("object", 42, READ) is an ALLOW with role engineer, HasAccess is true
\* for an engineer and false for a lawyer.
C10_RoleAllowOnly ==
    ( /\ Answered
      /\ last.a.resource_type = "object" /\ last.a.resource_id = 42 /\ last.a.permission = "read"
      /\ OnTarget(last.a) = { ACL("object", 42, "read", "allow", [NoMatcher EXCEPT !.role = "engineer"]) } )
        => LET user == UserById(last.a.user_id)
           IN  /\ user.role = "engineer" => last.ret = "True"
               /\ user.role = "lawyer" => last.ret = "False"

PermissionsCall == last.op = "get_user_permissions" /\ store_up /\ last.a.user_id \in { u.id : u \in Users }

\* the permissions of the entries of one effect on the resource of call a
\* that match the user
MatchingPermissions(a, user, effect) ==
    { e.permission : e \in { r \in BagToSet(acls) :
                                /\ r.resource_type = a.resource_type
                                /\ r.resource_id = a.resource_id
                                /\ r.effect = effect
                                /\ Matches(r, user) } }

\* C11 (GetUserPermissions is ALLOW minus DENY): GetUserPermissions returns
\* exactly the permissions of the ALLOW entries matching the subject on the
\* resource minus the permissions of the matching DENY entries; with a role
\* ALLOW on READ and a user DENY on READ for the same subject it returns
\* the empty set.
C11_PermissionsExact ==
    PermissionsCall =>
        LET user == UserById(last.a.user_id)
        IN  last.ret = MatchingPermissions(last.a, user, "allow")
                          \ MatchingPermissions(last.a, user, "deny")

\* C14 (the cache is advisory): when every cache read and write fails,
\* HasAccess raises nothing and returns exactly the verdict of the Rule
\* Store, as it does with no cache configured.
C14_CacheAdvisory ==
    (last.op = "has_access" /\ redis # NoneStr /\ ~cache_up)
        => last.ret = PyBool(StoreDecision(UserById(last.a.user_id), last.a.resource_type,
                                           last.a.resource_id, last.a.permission))

C14_Witness ==
    /\ last.op = "has_access"
    /\ redis # NoneStr
    /\ ~cache_up
    /\ last.ret = "True"
    /\ LET key == get_cache_key(last.a.user_id, last.a.resource_type,
                                last.a.resource_id, last.a.permission)
       IN  key \in DOMAIN cache /\ cache[key] = "false"

\* a cache key under the (user, resource type, resource id) prefix
UnderPrefix(k, user_id, rt, rid) == k[1] = user_id /\ k[2] = rt /\ k[3] = rid

\* C15 (a user-specific grant invalidates the whole prefix): after
\* GrantAccess with user_id U on (resource_type, resource_id), the cache
\* being reachable, the cache holds no entry (U, resource_type, resource_id,
\* p) for any p, whatever U and resource_id are, and the entries of other
\* users and of other resources are unchanged.
C15_PrefixInvalidation ==
    [][ ( /\ last'.op = "grant_access"
          /\ last'.ret = "rule"
          /\ last'.a.m.user_id # NoneInt
          /\ cache_up )
            => LET U   == last'.a.m.user_id
                   rt  == last'.a.resource_type
                   rid == last'.a.resource_id
               IN  /\ \A k \in DOMAIN cache' : ~UnderPrefix(k, U, rt, rid)
                   /\ \A k \in DOMAIN cache :
                          ~UnderPrefix(k, U, rt, rid) => (k \in DOMAIN cache' /\ cache'[k] = cache[k]) ]_vars

\* the number of matcher fields populated on an entry or a matcher
Populated(m) ==
    Cardinality( { f \in {"role", "department", "position", "location"} : m[f] # NoneStr }
                    \cup { f \in {"user_id", "object_id"} : m[f] # NoneInt } )

\* C16 (ambiguous matchers are rejected): GrantAccess called with none or
\* with more than one of the six matcher fields is rejected and stores
\* nothing, so every stored entry has exactly one populated matcher field.
C16_SingleMatcher ==
    /\ (last.op = "grant_access" /\ Populated(last.a.m) # 1) => last.ret # "rule"
    /\ \A e \in BagToSet(acls) : Populated(e) = 1

\* C17 (RevokeAccess matches the stored role exactly): RevokeAccess with
\* role r deletes at most one entry, and only one whose stored role equals
\* r; entries for the roles r inherits (employee, when r is admin) stay.
C17_RevokeExactRole ==
    [][ (last'.op = "revoke_access" /\ last'.a.role # NoneStr)
            => \/ acls' = acls
               \/ \E e \in BagToSet(acls) :
                      /\ e.role = last'.a.role
                      /\ acls' = acls (-) SetToBag({e}) ]_vars

C17_Witness ==
    /\ last.op = "revoke_access"
    /\ last.ret = "True"
    /\ last.a.role = "admin"
    /\ last.a.user_id = NoneInt
    /\ \E e \in OnTarget(last.a) : e.role = "employee"
    /\ \A e \in OnTarget(last.a) : e.role # "admin"

\* C18 (role hierarchy invariant): the effective role set HasAccess uses
\* for a subject always holds the subject's own role; it is {admin,
\* employee} for admin, {employee} for employee and {r} for every other
\* role r, in every reachable state.
C18_EffectiveRoles ==
    last.op = "has_access"
        => LET role == UserById(last.a.user_id).role
           IN  /\ role \in last.a.roles
               /\ last.a.roles = (CASE role = "admin"    -> {"admin", "employee"}
                                    [] role = "employee" -> {"employee"}
                                    [] OTHER             -> {role})

C18_Witness ==
    /\ last.op = "has_access"
    /\ UserById(last.a.user_id).role = "admin"
    /\ last.a.roles = {"admin", "employee"}
    /\ last.ret = "True"
    /\ \A e \in OnTarget(last.a) : e.effect = "allow" /\ e.role = "employee"
    /\ OnTarget(last.a) # {}

\* C20 (grants that name no user do not touch the cache): GrantAccess with
\* a role, department, position, location or object_id matcher and no
\* user_id leaves every cache entry as it was, so that a verdict cached
\* before the grant is still served after it.
C20_NonUserGrantKeepsCache ==
    [][ (last'.op = "grant_access" /\ last'.a.m.user_id = NoneInt) => cache' = cache ]_vars

C20_Witness ==
    /\ last.op = "grant_access"
    /\ last.ret = "rule"
    /\ last.a.m = [NoMatcher EXCEPT !.role = "employee"]
    /\ cache_up
    /\ check_from_cache(get_cache_key(2, "object", 42, "read")) = "False"
    /\ StoreDecision(UserById(2), "object", 42, "read")

\* C21 (cache round trip): with the client the application configures
\* (decode_responses=True), the verdict HasAccess returns for a key is the
\* boolean that stands in the cache for that key, whether this call wrote
\* it or read it back; a second HasAccess for the key with no rule change
\* returns what the first returned.
C21_CacheRoundTrip ==
    LET key == get_cache_key(last.a.user_id, last.a.resource_type,
                             last.a.resource_id, last.a.permission)
    IN  (last.op = "has_access" /\ redis = "decoded" /\ cache_up /\ key \in DOMAIN cache)
            => last.ret = PyBool(cache[key] = "true")

\* C26 (absent attributes never match): HasAccess counts an entry for a
\* subject only when a field populated on the entry equals the subject's
\* value; an attribute the subject lacks never matches an entry whose
\* column is empty. The verdict is therefore: no matching DENY entry and
\* some matching ALLOW entry.
C26_AbsentNeverMatch ==
    Answered =>
        LET user == UserById(last.a.user_id)
        IN  /\ \A e \in OnTarget(last.a) : SubjectFilter(e, user) => Matches(e, user)
            /\ last.ret = PyBool( /\ Matching(last.a, user, "deny") = {}
                                  /\ Matching(last.a, user, "allow") # {} )

\* what get_user_permissions computes from the store for a user
StorePermissions(user, rt, rid) ==
    PermissionQuery(user, rt, rid, "allow") \ PermissionQuery(user, rt, rid, "deny")

\* C27 (the two read paths agree): for an existing subject, a resource and
\* any store content, a permission is in the result of GetUserPermissions
\* exactly when HasAccess evaluated without a cache returns true for it.
C27_ReadPathsAgree ==
    /\ PermissionsCall =>
          \A perm \in PermissionType :
              perm \in last.ret <=> StoreDecision(UserById(last.a.user_id), last.a.resource_type,
                                                  last.a.resource_id, perm)
    /\ Answered =>
          (last.ret = "True" <=> last.a.permission \in StorePermissions(UserById(last.a.user_id),
                                                        last.a.resource_type, last.a.resource_id))

C27_Witness ==
    /\ PermissionsCall
    /\ last.ret = {}
    /\ PermissionQuery(UserById(last.a.user_id), last.a.resource_type, last.a.resource_id, "allow")
          = {"read"}

\* C28 (revocation never widens access): RevokeAccess removes ALLOW entries
\* only, so a store verdict that was false before a RevokeAccess call is
\* false after it, for every subject, resource and permission and whatever
\* user_id and role the call was given.
C28_RevokeNeverWidens ==
    [][ last'.op = "revoke_access"
            => \A user \in Users, t \in EvalTargets :
                  ~StoreDecision(user, t[1], t[2], t[3]) => ~StoreDecision(user, t[1], t[2], t[3])' ]_vars

VerdictText(b) == IF b THEN "true" ELSE "false"

\* the verdict the store gives for a cache key
KeyDecision(k) == StoreDecision(UserById(k[1]), k[2], k[3], k[4])

\* C22 (concurrent HasAccess calls agree): with no rule changing, a
\* HasAccess call that runs side by side with another one for the same
\* subject, resource and permission returns, under every interleaving of
\* their cache reads, store queries and cache writes, the verdict a single
\* call returns, and the cache holds the value a single call leaves.
C22_ConcurrentChecksAgree ==
    /\ (last.op = "has_access" /\ last.a.concurrent)
          => last.ret = PyBool(KeyDecision(get_cache_key(last.a.user_id, last.a.resource_type,
                                                         last.a.resource_id, last.a.permission)))
    /\ \A k \in DOMAIN cache : cache[k] = VerdictText(KeyDecision(k))

\* C25 (no stale verdict survives a completed user-specific mutation): once
\* a GrantAccess or RevokeAccess with user_id U on a resource and a HasAccess
\* for U on that resource that ran side by side with it have both returned,
\* the cache holds no verdict for the key that differs from the verdict of
\* the Rule Store.
C25_NoStaleAfterMutation ==
    (\A w \in Workers : pending[w] = Idle)
        => \A k \in DOMAIN cache : cache[k] = VerdictText(KeyDecision(k))

\* C23 (staleness is bounded by the TTL): every cache entry is written
\* with the finite ttl, so no entry, and in particular no verdict that a
\* role- or attribute-based rule change has made stale, is in the cache
\* (and served) once ttl seconds have passed since it was written; HasAccess
\* then recomputes from the Rule Store.
C23_StalenessBounded ==
    /\ DOMAIN age = DOMAIN cache
    /\ \A k \in DOMAIN cache : age[k] < ttl
    /\ (last.op = "has_access" /\ last.ret # PyBool(KeyDecision(get_cache_key(
            last.a.user_id, last.a.resource_type, last.a.resource_id, last.a.permission))))
          => LET key == get_cache_key(last.a.user_id, last.a.resource_type,
                                      last.a.resource_id, last.a.permission)
             IN  key \in DOMAIN cache /\ age[key] < ttl

C23_Witness ==
    /\ last.op = "expire"
    /\ \E e \in last.a : e[2] = "false" /\ KeyDecision(e[1])

-----------------------------------------------------------------------------
(* Properties of the object-access gate *)

ObjectAccessCall == last.op \in {"ObjectService.update_access", "ObjectService.revoke_access"}

TargetIsOwner(a) == \E r \in AccessOf(a.object_id, a.user_id) : r.role = "owner"

\* the rights test each operation makes before it looks at the target
PassesRightsTest(op, a) ==
    LET caller == UserById(a.current_user)
    IN  IF op = "ObjectService.update_access"
        THEN \/ \E o \in ObjectById(a.object_id) : o.created_by = caller.id
             \/ caller.role = "admin"
        ELSE \/ \E r \in AccessOf(a.object_id, caller.id) : r.role \in {"admin", "owner"}
             \/ caller.role = "admin"

C7_OwnerImmutable ==
    [][ \A r \in object_accesses : r.role = "owner" => r \in object_accesses' ]_vars

C7_Witness ==
    /\ last.op = "ObjectService.revoke_access"
    /\ last.ret = "400"
    /\ TargetIsOwner(last.a)
    /\ Cardinality(object_accesses) >= 2

SectionCall == last.op = "has_section_access"

\* C8 (owner and admin bypass the section list): HasSectionAccess is true
\* for every section when the record's role is owner or admin, whatever
\* sections_access holds, an empty or absent list included.
C8_OwnerAdminBypass ==
    (SectionCall /\ last.a.role \in {"owner", "admin"}) => last.ret = "True"

\* C9 as stated (section default): for a VIEWER or EDITOR record with an
\* absent list HasSectionAccess is true exactly for "general"; for a
\* non-null list it is membership of the section in the list.
C9_SectionDefaultNonNull ==
    (SectionCall /\ last.a.role \in {"viewer", "editor"})
        => IF last.a.sections_access = NoneSeq
           THEN last.ret = PyBool(last.a.section = "general")
           ELSE last.ret = PyBool(InSeq(last.a.section, last.a.sections_access))

\* C9 as amended: for a VIEWER or EDITOR record whose list is absent or
\* empty HasSectionAccess is true exactly for "general"; for a non-empty
\* list it is membership of the section in the list.
C9_SectionDefault ==
    (SectionCall /\ last.a.role \in {"viewer", "editor"})
        => IF last.a.sections_access \in {NoneSeq, <<>>}
           THEN last.ret = PyBool(last.a.section = "general")
           ELSE last.ret = PyBool(InSeq(last.a.section, last.a.sections_access))

C9_Witness ==
    /\ SectionCall
    /\ last.a.role = "viewer"
    /\ last.a.sections_access = NoneSeq
    /\ last.a.section = "technical"
    /\ last.ret = "False"

\* C12 ("general" is always granted): every record GrantObjectAccess creates
\* holds "general" whatever list the caller sent, no UpdateObjectAccess
\* removes it, and so has_section_access(record, "general") is true of
\* every record in every reachable state.
C12_GeneralAlways ==
    \A r \in object_accesses :
        /\ InSeq("general", r.sections_access)
        /\ has_section_access(r, "general")

C12_Witness ==
    /\ last.op = "ObjectService.update_access"
    /\ last.ret = "ok"
    /\ last.a.sections_access = <<"safety">>
    /\ \E r \in AccessOf(last.a.object_id, last.a.user_id) :
            /\ r.role = "viewer"
            /\ r.granted_by # r.user_id
            /\ r.sections_access = <<"safety", "general">>

\* department_to_section of sync_user_access_by_department: the document
\* section of a department of DepartmentName, NoneStr for one without
SectionOfDepartment(name) ==
    CASE name = DepartmentName.ACCOUNTING -> "accounting"
      [] name = DepartmentName.HR         -> "hr"
      [] name = DepartmentName.TECHNICAL  -> "technical"
      [] name = DepartmentName.LEGAL      -> "legal"
      [] name = DepartmentName.SAFETY     -> "safety"
      [] OTHER                            -> NoneStr

SeqToSet(seq) == { seq[i] : i \in 1..Len(seq) }

\* C13 (department section is appended): the record GrantObjectAccess
\* creates for a user of the accounting, HR, technical, legal or safety
\* department holds that department's section even if the caller did not
\* list it; for a user whose department maps to no section the record holds
\* the caller's list and "general" and nothing more.
C13_DepartmentSection ==
    (last.op = "ObjectService.grant_access" /\ last.ret = "ok")
        => LET target_user == UserById(last.a.user_id)
               section     == SectionOfDepartment(target_user.department_name)
           IN  \A r \in AccessOf(last.a.object_id, last.a.user_id) :
                  IF section # NoneStr
                  THEN InSeq(section, r.sections_access)
                  ELSE SeqToSet(r.sections_access) = SeqToSet(last.a.sections_access) \cup {"general"}

\* no two records for one (object_id, user_id)
UniquePairs ==
    \A r1, r2 \in object_accesses :
        (r1.object_id = r2.object_id /\ r1.user_id = r2.user_id) => r1 = r2

\* C19 (one record per pair): the store holds at most one object-access
\* record per (object_id, user_id) in every reachable state; a
\* GrantObjectAccess for a pair that already has a record fails and changes
\* nothing, also when two grants for the same pair run side by side.
C19_OneRecordPerPair ==
    [][ /\ UniquePairs'
        /\ (last'.op = "ObjectService.grant_access" /\ AccessOf(last'.a.object_id, last'.a.user_id) # {})
              => (last'.ret \notin {"ok", "pending"} /\ object_accesses' = object_accesses) ]_vars

C19_Witness ==
    /\ last.op = "ObjectService.grant_access"
    /\ last.ret = "IntegrityError"
    /\ \E r \in AccessOf(last.a.object_id, last.a.user_id) : r.role # last.a.role

\* the OWNER records of an object
OwnersOf(object_id) ==
    { r \in object_accesses : r.object_id = object_id /\ r.role = "owner" }

\* C29 (single owner): in every state reachable by create_object,
\* GrantObjectAccess, UpdateObjectAccess and RevokeObjectAccess each object
\* has exactly one record with role OWNER, and that record belongs to the
\* object's creator.
C29_SingleOwner ==
    \A o \in objects :
        /\ Cardinality(OwnersOf(o.id)) = 1
        /\ \A r \in OwnersOf(o.id) : r.user_id = o.created_by

\* C30: refresh tokens are single-use and revocable: over any sequence and
\* interleaving of login, refresh_token, logout and revoke_session calls,
\* refresh_token accepts a given refresh token at most once, and it accepts
\* no token whose session was revoked or had expired when it was presented
C30_RefreshSingleUse ==
    /\ \A t \in DOMAIN tokens : tokens[t] <= 1
    /\ (last.op = "refresh_token" /\ last.ret = "200") =>
           (~last.a.revoked /\ ~last.a.expired)

====
